---- MODULE Spec2Model ----
(***************************************************************************)
(* Model of the chunking engine (backend/core/chunking.py,                 *)
(* backend/utils/base_chunker.py) and of the vector storage / retrieval    *)
(* layer (backend/core/storing.py, backend/core/retrieval.py).             *)
(*                                                                         *)
(* A dataset is a sequence of rows; a chunk is the sequence of 0-based row *)
(* positions (DataFrame.iloc positions, equal to the labels of the default *)
(* RangeIndex) it was cut from, so that two chunks holding equal-looking   *)
(* rows are still told apart.                                              *)
(***************************************************************************)
EXTENDS Integers, Sequences, FiniteSets, TLC

\* ---------------------------------------------------------------- bounds
MaxRows == 4
MaxKey == 2
MaxChunkSize == 3
MaxClusters == 3
MaxTokenLimit == 3
MaxVectors == 2
MaxBatch == 2
MaxTopK == 2
MaxChunks == 2
MaxChars == 16
MaxClusterRows == 3

\* ------------------------------------------------------- program constants
\* len(group_text) // 4 : characters per estimated token
CharsPerToken == 4
\* rendered width of the value column of the rows InitChunk draws
DefaultValLen == 1

Null == 0
Keys == 1..MaxKey
KeyDomain == {Null} \cup Keys

VARIABLES
  dataset,     \* the DataFrame handed to a chunker
  call,        \* the chunker call made: strategy and arguments
  result,      \* what that call returned or raised
  store_type,  \* UnifiedRetriever.store_type: "chroma" or "faiss"
  collection,  \* Backend A: the records of the ChromaDB collection, by id
  faiss,       \* Backend B: index, id maps and side tables of the instance
  disk,        \* Backend B: index.faiss and metadata.pkl in persist_directory
  scall,       \* the store / retriever call made
  sresult      \* what that call returned or raised

chunkVars == <<dataset, call, result>>
storeVars == <<store_type, collection, faiss, disk, scall, sresult>>
vars == <<dataset, call, result, store_type, collection, faiss, disk, scall,
          sresult>>

\* ---------------------------------------------------------------- helpers
Min(a, b) == IF a < b THEN a ELSE b
Max(a, b) == IF a > b THEN a ELSE b

RECURSIVE SumSeq(_)
SumSeq(s) == IF s = <<>> THEN 0 ELSE Head(s) + SumSeq(Tail(s))

RECURSIVE Concat(_)
Concat(ss) == IF ss = <<>> THEN <<>> ELSE Head(ss) \o Concat(Tail(ss))

SeqRange(s) == {s[i] : i \in DOMAIN s}

\* dataframe.iloc[start:end] on a frame of n rows, 0 <= start: the positions
\* start .. min(end, n) - 1
Iloc(n, start, end) ==
  LET e == Min(end, n)
  IN IF e > start THEN [i \in 1..(e - start) |-> start + i - 1] ELSE <<>>

\* ---------------------------------------------------- base_chunker.py
NoResult == [status |-> "none"]
Raised(err) == [status |-> "raised", error |-> err]

\* BaseChunker.validate_input: "" when the frame is accepted
validate_input(df) ==
  IF Len(df) = 0 THEN "ValueError" ELSE ""

\* chunk_size taken from the index span instead of len(chunk)
create_chunk_metadata_SpanSize(name, chunk, chunk_index, start_idx, end_idx, extra) ==
  [ chunk_index |-> chunk_index,
    start_idx |-> start_idx,
    end_idx |-> end_idx,
    chunk_size |-> end_idx - start_idx + 1,
    method |-> name,
    additional_metadata |-> extra ]

\* BaseChunker.create_chunk_metadata: chunk_size = len(chunk)
create_chunk_metadata(name, chunk, chunk_index, start_idx, end_idx, extra) ==
  [ chunk_index |-> chunk_index,
    start_idx |-> start_idx,
    end_idx |-> end_idx,
    chunk_size |-> Len(chunk),
    method |-> name,
    additional_metadata |-> extra ]

\* ChunkingQualityAssessment.comprehensive_assessment.  Scores are kept as
\* integers in units of 1/(100 * original_rows); coverage is the pair
\* <<total_rows_chunked, original_rows>>.
quality_label(score, unit) ==
  IF score >= 80 * unit THEN "EXCELLENT"
  ELSE IF score >= 60 * unit THEN "GOOD"
  ELSE IF score >= 40 * unit THEN "FAIR"
  ELSE "POOR"

\* the report for an empty chunk list, without the error entry
NoChunksReport_Unflagged ==
  [overall_quality |-> "POOR", coverage |-> <<0, 1>>, total_chunks |-> 0]

\* the report for an empty chunk list
NoChunksReport ==
  [ overall_quality |-> "POOR", coverage |-> <<0, 1>>,
    total_chunks |-> 0, error |-> "No chunks generated" ]

\* the score unit: 1/(100 * original_rows), and 1/100 for an empty source
ScoreUnit(original_rows) == IF original_rows > 0 THEN original_rows ELSE 1

\* max(0.0, min(1.0, quality_score)), left unclamped
ClampScore_Unclamped(raw, unit) == raw

\* max(0.0, min(1.0, quality_score))
ClampScore(raw, unit) == Max(0, Min(100 * unit, raw))

comprehensive_assessment(chunks, original_rows) ==
  IF chunks = <<>> THEN NoChunksReport
  ELSE
    LET sizes == [i \in DOMAIN chunks |-> Len(chunks[i])]
        m == Len(chunks)
        total_rows_chunked == SumSeq(sizes)
        N == original_rows
        U == ScoreUnit(original_rows)
        sumsq == SumSeq([i \in DOMAIN sizes |-> sizes[i] * sizes[i]])
        empty_chunks == Cardinality({i \in DOMAIN sizes : sizes[i] = 0})
        very_small_chunks == Cardinality({i \in DOMAIN sizes : sizes[i] < 3})
        very_large_chunks ==
          Cardinality({i \in DOMAIN sizes : 5 * sizes[i] > 4 * N})
        \* coverage is 0.0 for an empty source
        p_cov == IF N = 0 THEN 190 * U
                 ELSE IF 20 * total_rows_chunked < 19 * N
                 THEN 190 * N - 200 * total_rows_chunked ELSE 0
        p_var == IF 4 * m * sumsq > 5 * total_rows_chunked * total_rows_chunked
                 THEN 10 * U ELSE 0
        raw == 100 * U - p_cov - 10 * U * empty_chunks
               - 5 * U * very_small_chunks - 20 * U * very_large_chunks - p_var
        score == ClampScore(raw, U)
    IN [ overall_quality |-> quality_label(score, U),
         quality_score |-> <<score, 100 * U>>,
         coverage |-> IF N = 0 THEN <<0, 1>> ELSE <<total_rows_chunked, N>>,
         total_chunks |-> m,
         total_rows_processed |-> total_rows_chunked,
         original_rows |-> N,
         quality_issues |-> [ empty_chunks |-> empty_chunks,
                              very_small_chunks |-> very_small_chunks,
                              very_large_chunks |-> very_large_chunks ] ]

ChunkingResult(name, acc, original_rows) ==
  [ status |-> "ok",
    chunks |-> acc.chunks,
    metadata |-> acc.metadata,
    method |-> name,
    total_chunks |-> Len(acc.chunks),
    quality_report |-> comprehensive_assessment(acc.chunks, original_rows) ]

EmptyAcc == [chunks |-> <<>>, metadata |-> <<>>]

\* ---------------------------------------------------- FixedSizeChunker
\* the parameter checks of FixedSizeChunker.chunk, in source order
FixedParamError_NoUpperCheck(chunk_size, overlap) ==
  IF chunk_size <= 0 THEN "ValueError"
  ELSE IF overlap < 0 THEN "ValueError"
  ELSE ""

FixedParamError(chunk_size, overlap) ==
  IF chunk_size <= 0 THEN "ValueError"
  ELSE IF overlap < 0 THEN "ValueError"
  ELSE IF overlap >= chunk_size THEN "ValueError"
  ELSE ""

FixedStep_Skipping(chunk_size, overlap) == Max(1, chunk_size - overlap) + 1

FixedStep(chunk_size, overlap) == Max(1, chunk_size - overlap)

FixedEnd_OneShort(start_idx, chunk_size, n) ==
  Min(start_idx + chunk_size - 1, n)

\* end_idx = min(start_idx + chunk_size, total_rows)
FixedEnd(start_idx, chunk_size, n) == Min(start_idx + chunk_size, n)

\* for start_idx in range(0, total_rows, step): ... if end_idx >= total_rows: break
RECURSIVE FixedLoop(_, _, _, _, _, _)
FixedLoop(n, chunk_size, overlap, start_idx, chunk_index, acc) ==
  IF start_idx >= n THEN acc
  ELSE
    LET end_idx == FixedEnd(start_idx, chunk_size, n)
        chunk_df == Iloc(n, start_idx, end_idx)
        md == create_chunk_metadata("fixed_size", chunk_df, chunk_index,
                start_idx, end_idx - 1,
                [ chunk_size_param |-> chunk_size, overlap |-> overlap,
                  actual_size |-> Len(chunk_df),
                  chunking_method |-> "fixed_size" ])
        acc2 == [ chunks |-> Append(acc.chunks, chunk_df),
                  metadata |-> Append(acc.metadata, md) ]
    IN IF end_idx >= n THEN acc2
       ELSE FixedLoop(n, chunk_size, overlap,
                      start_idx + FixedStep(chunk_size, overlap),
                      chunk_index + 1, acc2)

FixedSizeChunker_chunk(df, chunk_size, overlap) ==
  IF validate_input(df) # "" THEN Raised(validate_input(df))
  ELSE IF FixedParamError(chunk_size, overlap) # ""
       THEN Raised(FixedParamError(chunk_size, overlap))
  ELSE ChunkingResult("fixed_size",
         FixedLoop(Len(df), chunk_size, overlap, 0, 0, EmptyAcc), Len(df))

\* ---------------------------------------------------- SemanticChunker
\* " ".join(str(val) for val in row if notna(val)): characters of one row
SemRowTextLen(row) ==
  (IF row.key # Null THEN 2 ELSE 0) + row.vlen

\* " ".join(row texts) of the rows of a chunk
SemChunkTextLen(df, chunk_df) ==
  IF chunk_df = <<>> THEN 0
  ELSE SumSeq([i \in DOMAIN chunk_df |-> SemRowTextLen(df[chunk_df[i] + 1])])
       + (Len(chunk_df) - 1)

SemFallbackSize(n, n_clusters) == Max(1, n \div n_clusters)

\* the end of block i: min((i + 1) * chunk_size, len(dataframe))
SemFallbackEnd(n, chunk_size, i) == Min((i + 1) * chunk_size, n)

\* for i in range(n_clusters): ... if start_idx >= len(dataframe): break
RECURSIVE SemFallbackLoop(_, _, _, _, _)
SemFallbackLoop(df, n_clusters, chunk_size, i, acc) ==
  IF i >= n_clusters \/ i * chunk_size >= Len(df) THEN acc
  ELSE
    LET start_idx == i * chunk_size
        end_idx == SemFallbackEnd(Len(df), chunk_size, i)
        chunk_df == Iloc(Len(df), start_idx, end_idx)
        md == create_chunk_metadata("semantic", chunk_df, i,
                start_idx, end_idx - 1,
                [ cluster_id |-> i, cluster_size |-> Len(chunk_df),
                  n_clusters_param |-> n_clusters,
                  chunking_method |-> "semantic_fallback",
                  text_length |-> SemChunkTextLen(df, chunk_df) ])
    IN SemFallbackLoop(df, n_clusters, chunk_size, i + 1,
         [ chunks |-> Append(acc.chunks, chunk_df),
           metadata |-> Append(acc.metadata, md) ])

\* SemanticChunker._chunk_fallback; len(dataframe) // 0 raises
SemanticChunker_chunk_fallback(df, n_clusters) ==
  IF n_clusters = 0 THEN Raised("ZeroDivisionError")
  ELSE ChunkingResult("semantic",
         SemFallbackLoop(df, n_clusters, SemFallbackSize(Len(df), n_clusters),
                         0, EmptyAcc), Len(df))

\* " ".join(f"{col}: {val}" ...) of one row, and the space-joined sentences
\* of a cluster
SemSentenceLen(row) ==
  (IF row.key # Null THEN 7 ELSE 0) + 5 + row.vlen

SemCombinedTextLen(df, row_indices) ==
  SumSeq([i \in DOMAIN row_indices |-> SemSentenceLen(df[row_indices[i] + 1])])
  + (Len(row_indices) - 1)

\* the keys of the clusters dict, in insertion order: labels by first
\* occurrence along the rows
RECURSIVE LabelOrder(_, _, _)
LabelOrder(labels, i, acc) ==
  IF i > Len(labels) THEN acc
  ELSE LabelOrder(labels, i + 1,
         IF labels[i] \in SeqRange(acc) THEN acc ELSE Append(acc, labels[i]))

\* the positions carrying one label, ascending
RECURSIVE RowsWithLabel(_, _, _, _)
RowsWithLabel(labels, lab, i, acc) ==
  IF i > Len(labels) THEN acc
  ELSE RowsWithLabel(labels, lab, i + 1,
         IF labels[i] = lab THEN Append(acc, i - 1) ELSE acc)

RECURSIVE SemClusterLoop(_, _, _, _, _)
SemClusterLoop(df, labels, k, order, acc) ==
  IF order = <<>> THEN acc
  ELSE
    LET cluster_idx == Head(order)
        row_indices == RowsWithLabel(labels, cluster_idx, 1, <<>>)
        md == create_chunk_metadata("semantic", row_indices, cluster_idx,
                row_indices[1], row_indices[Len(row_indices)],
                [ cluster_id |-> cluster_idx,
                  cluster_size |-> Len(row_indices),
                  n_clusters_param |-> k,
                  chunking_method |-> "semantic_clustering",
                  text_length |-> SemCombinedTextLen(df, row_indices) ])
    IN SemClusterLoop(df, labels, k, Tail(order),
         [ chunks |-> Append(acc.chunks, row_indices),
           metadata |-> Append(acc.metadata, md) ])

\* SemanticChunker._chunk_with_embeddings once the model and KMeans have
\* answered with `labels` (one label in 0 .. k-1 per row)
SemanticChunker_chunk_with_embeddings(df, n_clusters, labels) ==
  ChunkingResult("semantic",
    SemClusterLoop(df, labels, Min(n_clusters, Len(df)),
                   LabelOrder(labels, 1, <<>>), EmptyAcc), Len(df))

\* what the external embedding model and KMeans can do on this input: raise,
\* or label every row with one of min(n_clusters, rows) clusters
PrimaryOutcomes(df, n_clusters) ==
  {[raises |-> TRUE, labels |-> <<>>]} \cup
  {[raises |-> FALSE, labels |-> l] :
     l \in [1..Len(df) -> 0..(Min(n_clusters, Len(df)) - 1)]}

\* the same without the try/except around the primary path
SemanticChunker_chunk_Propagating(df, n_clusters, deps_available, primary) ==
  IF validate_input(df) # "" THEN Raised(validate_input(df))
  ELSE IF ~deps_available THEN SemanticChunker_chunk_fallback(df, n_clusters)
  ELSE IF primary.raises THEN Raised("Exception")
  ELSE SemanticChunker_chunk_with_embeddings(df, n_clusters, primary.labels)

\* SemanticChunker.chunk: deps_available is
\* SENTENCE_TRANSFORMERS_AVAILABLE and SKLEARN_AVAILABLE
SemanticChunker_chunk(df, n_clusters, deps_available, primary) ==
  IF validate_input(df) # "" THEN Raised(validate_input(df))
  ELSE IF ~deps_available THEN SemanticChunker_chunk_fallback(df, n_clusters)
  ELSE IF primary.raises THEN SemanticChunker_chunk_fallback(df, n_clusters)
  ELSE SemanticChunker_chunk_with_embeddings(df, n_clusters, primary.labels)

\* the frame a chunk is built in, here sharing its rows with the source
FrameCopy_View(positions) == [owner |-> "source", positions |-> positions]

\* dataframe.iloc[start_idx:end_idx].copy() and dataframe.loc[row_indices]
\* .copy(): a frame of its own holding the rows at `positions`
FrameCopy(positions) == [owner |-> "copy", positions |-> positions]

\* frame['text'] = text, seen from the source: a copy takes the column and the
\* source keeps its rows; a frame that is the source's own gives the source a
\* text column (NaN, written Null, outside the frame's rows)
AssignText(df, frame, text_len) ==
  IF frame.owner = "copy" THEN df
  ELSE [i \in DOMAIN df |->
          [ key |-> df[i].key, vlen |-> df[i].vlen,
            text |-> IF (i - 1) \in SeqRange(frame.positions) THEN text_len
                     ELSE Null ]]

\* the source frame after the column assignments made for chunks[i..]
\* (chunk_df['text'] = chunk_text, cluster_df_with_text['text'] =
\* combined_text)
RECURSIVE SourceAfterTextColumns(_, _, _)
SourceAfterTextColumns(df, res, i) ==
  IF i > Len(res.chunks) THEN df
  ELSE SourceAfterTextColumns(
         AssignText(df, FrameCopy(res.chunks[i]),
                    res.metadata[i].additional_metadata.text_length),
         res, i + 1)

\* the source frame when SemanticChunker.chunk has returned `res` or raised
SemanticChunker_source_after(df, res) ==
  IF res.status = "ok" THEN SourceAfterTextColumns(df, res, 1) ELSE df

\* ---------------------------------------------------- DocumentBasedChunker
\* ", ".join(df.columns): the columns are "key" and "val"
HeaderLen == 8

\* ", ".join(str(val) if notna(val) else "" for val in row); a key renders
\* as one character
DocRowTextLen(row) ==
  (IF row.key # Null THEN 1 ELSE 0) + 2 + row.vlen

\* DocumentBasedChunker._dataframe_to_text: length of the rendered text of
\* the rows at `positions`
dataframe_to_text_len(df, positions, preserve_headers) ==
  IF positions = <<>> THEN 0
  ELSE LET parts == (IF preserve_headers THEN 1 ELSE 0) + Len(positions)
       IN (IF preserve_headers THEN HeaderLen ELSE 0)
          + SumSeq([i \in DOMAIN positions |-> DocRowTextLen(df[positions[i] + 1])])
          + (parts - 1)

\* token estimate without a tokenizer: len(text) // 4
token_estimate(df, positions, preserve_headers) ==
  dataframe_to_text_len(df, positions, preserve_headers) \div CharsPerToken

\* dataframe.groupby(key_column): pandas' defaults sort=True, dropna=True, so
\* the group keys are the distinct non-null keys in ascending order
RECURSIVE SortedSeq(_)
SortedSeq(S) ==
  IF S = {} THEN <<>>
  ELSE LET lo == CHOOSE x \in S : \A y \in S : x <= y
       IN <<lo>> \o SortedSeq(S \ {lo})

\* groupby(key_column, sort=False): keys in order of first appearance
RECURSIVE FirstSeenKeys(_, _, _)
FirstSeenKeys(df, i, acc) ==
  IF i > Len(df) THEN acc
  ELSE FirstSeenKeys(df, i + 1,
         IF df[i].key = Null \/ df[i].key \in SeqRange(acc) THEN acc
         ELSE Append(acc, df[i].key))

GroupKeys_Unsorted(df) == FirstSeenKeys(df, 1, <<>>)

GroupKeys(df) ==
  SortedSeq({df[i].key : i \in DOMAIN df} \ {Null})

\* the rows of one group, in source order (positions)
RECURSIVE GroupRows(_, _, _, _)
GroupRows(df, key_value, i, acc) ==
  IF i > Len(df) THEN acc
  ELSE GroupRows(df, key_value, i + 1,
         IF df[i].key = key_value THEN Append(acc, i - 1) ELSE acc)

\* group.iloc[start:end]
GroupIloc(group, start, end) ==
  LET e == Min(end, Len(group))
  IN IF e > start THEN [i \in 1..(e - start) |-> group[start + i]] ELSE <<>>

\* num_chunks = (token_count // token_limit) + 1
DocNumChunks_Ceil(token_count, token_limit) ==
  (token_count + token_limit - 1) \div token_limit

DocNumChunks(token_count, token_limit) == (token_count \div token_limit) + 1

\* for i in range(num_chunks): ... if start_idx >= len(group): break
RECURSIVE DocSubLoop(_, _, _, _, _, _, _, _, _)
DocSubLoop(df, group, key_value, token_limit, preserve_headers, num_chunks, i, chunk_index, acc) ==
  LET g == Len(group)
      chunk_size == g \div num_chunks
      start_idx == i * chunk_size
      end_idx == IF i < num_chunks - 1 THEN (i + 1) * chunk_size ELSE g
  IN IF i >= num_chunks \/ start_idx >= g THEN acc
     ELSE
       LET sub_group == GroupIloc(group, start_idx, end_idx)
           md == create_chunk_metadata("document_based", sub_group, chunk_index,
                   IF start_idx < g THEN group[start_idx + 1] ELSE group[g],
                   IF end_idx > 0 /\ end_idx <= g THEN group[end_idx]
                                                  ELSE group[g],
                   [ key_column |-> "key", key_value |-> key_value,
                     chunking_method |-> "document_based",
                     token_count |->
                       token_estimate(df, sub_group, preserve_headers),
                     token_limit |-> token_limit,
                     group_size |-> g,
                     subchunk_index |-> i + 1,
                     total_subchunks |-> num_chunks,
                     is_subchunk |-> TRUE ])
       IN DocSubLoop(df, group, key_value, token_limit, preserve_headers,
            num_chunks, i + 1, chunk_index + 1,
            [ chunks |-> Append(acc.chunks, sub_group),
              metadata |-> Append(acc.metadata, md) ])

\* for key_value, group in grouped: ...
RECURSIVE DocGroupLoop(_, _, _, _, _)
DocGroupLoop(df, keys, token_limit, preserve_headers, acc) ==
  IF keys = <<>> THEN acc
  ELSE
    LET key_value == Head(keys)
        group == GroupRows(df, key_value, 1, <<>>)
        token_count == token_estimate(df, group, preserve_headers)
        chunk_index == Len(acc.chunks)
    IN IF token_count <= token_limit
       THEN
         LET md == create_chunk_metadata("document_based", group, chunk_index,
                     group[1], group[Len(group)],
                     [ key_column |-> "key", key_value |-> key_value,
                       chunking_method |-> "document_based",
                       token_count |-> token_count,
                       token_limit |-> token_limit,
                       group_size |-> Len(group),
                       is_subchunk |-> FALSE ])
         IN DocGroupLoop(df, Tail(keys), token_limit, preserve_headers,
              [ chunks |-> Append(acc.chunks, group),
                metadata |-> Append(acc.metadata, md) ])
       ELSE
         DocGroupLoop(df, Tail(keys), token_limit, preserve_headers,
           DocSubLoop(df, group, key_value, token_limit, preserve_headers,
                      DocNumChunks(token_count, token_limit), 0,
                      chunk_index, acc))

\* DocumentBasedChunker.chunk with no tokenizer at hand (tiktoken missing or
\* failing): token counts are the character estimate.  A group over the
\* limit with token_limit = 0 divides by zero.
DocumentBasedChunker_chunk(df, key_column, token_limit, preserve_headers) ==
  IF validate_input(df) # "" THEN Raised(validate_input(df))
  ELSE IF key_column # "key" THEN Raised("ValueError")
  ELSE IF token_limit = 0 /\ \E i \in DOMAIN GroupKeys(df) :
            token_estimate(df, GroupRows(df, GroupKeys(df)[i], 1, <<>>),
                           preserve_headers) > 0
       THEN Raised("ZeroDivisionError")
  ELSE ChunkingResult("document_based",
         DocGroupLoop(df, GroupKeys(df), token_limit, preserve_headers,
                      EmptyAcc), Len(df))

\* ---------------------------------------------------- RecursiveChunker
\* " | ".join(f"{col}: {row[col]}" for non-null columns): "key: k | val: v"
RecRowTextLen(row) ==
  (IF row.key # Null THEN 9 ELSE 0) + 5 + row.vlen

\* len("\n".join(text rows of `rows`))
RecJoinedLen(df, rows) ==
  IF rows = <<>> THEN 0
  ELSE SumSeq([i \in DOMAIN rows |-> RecRowTextLen(df[rows[i] + 1])])
       + (Len(rows) - 1)

\* overlap // 100 + 1 rows carried over
RecOverlapRows_OneMore(overlap, current_chunk_rows) ==
  Max(0, Min((overlap \div 100) + 1, Len(current_chunk_rows)))

\* overlap_rows = max(0, min(overlap // 100, len(current_chunk_rows)))
RecOverlapRows(overlap, current_chunk_rows) ==
  Max(0, Min(overlap \div 100, Len(current_chunk_rows)))

\* current_chunk_rows[-overlap_rows:] if overlap_rows > 0 else []
RecKeep(current_chunk_rows, overlap_rows) ==
  IF overlap_rows > 0
  THEN SubSeq(current_chunk_rows,
              Len(current_chunk_rows) - overlap_rows + 1,
              Len(current_chunk_rows))
  ELSE <<>>

\* the chunk and metadata appended when the buffered rows are emitted
RecEmit(acc, chunk_size, overlap, rows, text_len) ==
  [ chunks |-> Append(acc.chunks, rows),
    metadata |-> Append(acc.metadata,
      create_chunk_metadata("recursive", rows, Len(acc.chunks),
        rows[1], rows[Len(rows)],
        [ chunk_size_param |-> chunk_size, overlap |-> overlap,
          text_length |-> text_len,
          chunking_method |-> "recursive_fallback" ])) ]

\* if current_char_count + len(text_row) > chunk_size and current_chunk_rows
RecCloses(current_char_count, row_len, chunk_size, rows) ==
  current_char_count + row_len > chunk_size /\ rows # <<>>

\* for i, (text_row, orig_idx) in enumerate(zip(text_rows, row_indices)),
\* then the last chunk; `text_len` is len(current_chunk_text)
RECURSIVE RecLoop(_, _, _, _, _, _, _, _)
RecLoop(df, chunk_size, overlap, i, rows, text_len, count, acc) ==
  IF i > Len(df)
  THEN IF rows # <<>> THEN RecEmit(acc, chunk_size, overlap, rows, text_len)
       ELSE acc
  ELSE
    LET row_len == RecRowTextLen(df[i])
    IN IF RecCloses(count, row_len, chunk_size, rows)
       THEN
         LET kept == RecKeep(rows, RecOverlapRows(overlap, rows))
             kept_len == RecJoinedLen(df, kept)
         IN RecLoop(df, chunk_size, overlap, i + 1, Append(kept, i - 1),
                    kept_len + 1 + row_len, kept_len + row_len + 1,
                    RecEmit(acc, chunk_size, overlap, rows, text_len))
       ELSE RecLoop(df, chunk_size, overlap, i + 1, Append(rows, i - 1),
                    text_len + 1 + row_len, count + row_len + 1, acc)

RecursiveChunker_chunk_fallback(df, chunk_size, overlap) ==
  ChunkingResult("recursive",
    RecLoop(df, chunk_size, overlap, 1, <<>>, 0, 0, EmptyAcc), Len(df))

\* the row of the single-row frame pd.DataFrame({'text': [text_chunk]}): not
\* a row of the source
TextRow == -1

\* for chunk_index, text_chunk in enumerate(text_chunks); text_chunks holds
\* the length of each text chunk
RECURSIVE LangchainLoop(_, _, _, _, _)
LangchainLoop(text_chunks, chunk_size, overlap, chunk_index, acc) ==
  IF chunk_index >= Len(text_chunks) THEN acc
  ELSE
    LET chunk_df == <<TextRow>>
        md == create_chunk_metadata("recursive", chunk_df, chunk_index, 0, 0,
                [ chunk_size_param |-> chunk_size, overlap |-> overlap,
                  text_length |-> text_chunks[chunk_index + 1],
                  chunking_method |-> "recursive_langchain" ])
    IN LangchainLoop(text_chunks, chunk_size, overlap, chunk_index + 1,
         [ chunks |-> Append(acc.chunks, chunk_df),
           metadata |-> Append(acc.metadata, md) ])

\* RecursiveChunker._chunk_with_langchain once the splitter has answered
RecursiveChunker_chunk_with_langchain(df, chunk_size, overlap, split) ==
  IF split.raises THEN Raised("ValueError")
  ELSE ChunkingResult("recursive",
         LangchainLoop(split.text_chunks, chunk_size, overlap, 0, EmptyAcc),
         Len(df))

\* RecursiveChunker.chunk
RecursiveChunker_chunk(df, chunk_size, overlap, langchain_available, split) ==
  IF validate_input(df) # "" THEN Raised(validate_input(df))
  ELSE IF langchain_available
       THEN RecursiveChunker_chunk_with_langchain(df, chunk_size, overlap, split)
  ELSE RecursiveChunker_chunk_fallback(df, chunk_size, overlap)

\* ---------------------------------------------------- storing.py
\* Embeddings are integer vectors of dimension 2 whose Euclidean norm is an
\* integer; a normalised vector is kept as the pair (vector, norm), and every
\* score is a rational <<numerator, denominator>> with denominator > 0.
IdSeq == <<"r1", "r2">>
Ids == SeqRange(IdSeq)
IdRank(id) == CHOOSE k \in DOMAIN IdSeq : IdSeq[k] = id
Vecs == {<<3, 4>>, <<8, 6>>, <<-3, -4>>}
\* a metadata value: its Python type and its str()
MdStr(s) == [type |-> "str", repr |-> s]
MdList == [type |-> "list", repr |-> "['a']"]
MdNone == [type |-> "NoneType", repr |-> "None"]
ScalarTypes == {"str", "int", "float", "bool"}

Metas == {[src |-> MdStr("a")], [src |-> MdStr("b")]}
Docs == {"text"}
Wheres == {{}, {<<"src", MdStr("a")>>}}

VectorRecords == [id : Ids, embedding : Vecs, metadata : Metas, document : Docs]

Dot(a, b) == a[1] * b[1] + a[2] * b[2]

\* np.linalg.norm
Norm(v) == CHOOSE r \in 0..(Dot(v, v)) : r * r = Dot(v, v)

\* embedding / norm when norm > 0
Normalize(v) == [x |-> v, n |-> IF Norm(v) > 0 THEN Norm(v) ELSE 1]

\* inner product of two normalised vectors
InnerProduct(u, w) == <<Dot(u.x, w.x), u.n * w.n>>

\* squared L2 distance, the collection's default space
L2Distance(a, b) ==
  <<(a[1] - b[1]) * (a[1] - b[1]) + (a[2] - b[2]) * (a[2] - b[2]), 1>>

RatLT(a, b) == a[1] * b[2] < b[1] * a[2]
RatEQ(a, b) == a[1] * b[2] = b[1] * a[2]

Put(f, k, v) == (k :> v) @@ f
EmptyMap == <<>>

\* str(v)
Str(v) == [type |-> "str", repr |-> v.repr]

\* _sanitize_metadata: None values are skipped, scalars kept, every other
\* value replaced by its str(); an empty outcome becomes the fallback
sanitize_metadata(md, fallback_id) ==
  LET kept == {k \in DOMAIN md : md[k].type # "NoneType"}
      safe == [k \in kept |->
                 IF md[k].type \in ScalarTypes THEN md[k] ELSE Str(md[k])]
  IN IF kept = {} THEN [chunk_id |-> MdStr(fallback_id)] ELSE safe

\* FAISSVectorStore._matches_filter; where is a set of <<key, value>>
matches_filter(metadata, where) ==
  \A kv \in where : kv[1] \in DOMAIN metadata /\ metadata[kv[1]] = kv[2]

EmptyResults ==
  [status |-> "ok", ids |-> <<>>, distances |-> <<>>, metadatas |-> <<>>,
   documents |-> <<>>]

BackendRaised(err) == [status |-> "raised", error |-> err, raised_by |-> "backend"]

\* ---- Backend A: ChromaVectorStore
\* the ids of the collection that pass the native where filter, nearest
\* first by distance to q (ties by id)
RECURSIVE ChromaNearest(_, _, _, _)
ChromaNearest(coll, q, n, cand) ==
  IF n = 0 \/ cand = {} THEN <<>>
  ELSE LET d(i) == L2Distance(coll[i].embedding, q)
           best == CHOOSE i \in cand :
                     \A j \in cand \ {i} :
                       RatLT(d(i), d(j))
                         \/ (RatEQ(d(i), d(j)) /\ IdRank(i) < IdRank(j))
       IN <<best>> \o ChromaNearest(coll, q, n - 1, cand \ {best})

\* ChromaVectorStore.query for one query embedding: collection.query rejects
\* n_results <= 0 and returns at most n_results records
ChromaVectorStore_query(coll, q, n_results, where) ==
  IF n_results <= 0 THEN BackendRaised("ValueError")
  ELSE IF \E i \in DOMAIN coll : Len(coll[i].embedding) # Len(q)
  THEN BackendRaised("InvalidDimensionException")
  ELSE
    LET cand == {i \in DOMAIN coll : matches_filter(coll[i].metadata, where)}
        ids == ChromaNearest(coll, q, n_results, cand)
    IN [ status |-> "ok",
         ids |-> ids,
         distances |-> [k \in DOMAIN ids |-> L2Distance(coll[ids[k]].embedding, q)],
         metadatas |-> [k \in DOMAIN ids |-> coll[ids[k]].metadata],
         documents |-> [k \in DOMAIN ids |-> coll[ids[k]].document] ]

HasDuplicateIds(records) ==
  \E i, j \in DOMAIN records : i # j /\ records[i].id = records[j].id

RECURSIVE ChromaWrite(_, _, _)
ChromaWrite(coll, records, overwrite) ==
  IF records = <<>> THEN coll
  ELSE LET r == Head(records)
           entry == [ embedding |-> r.embedding,
                      metadata |-> sanitize_metadata(r.metadata, r.id),
                      document |-> r.document ]
       IN ChromaWrite(
            IF r.id \in DOMAIN coll /\ ~overwrite THEN coll
            ELSE Put(coll, r.id, entry),
            Tail(records), overwrite)

\* ChromaVectorStore.add: collection.add, and collection.upsert when that
\* raises.  A batch repeating an id is rejected by both, and so are
\* embeddings that differ in length from each other or from those the
\* collection holds; an id already stored
\* makes collection.add raise or skip the record, by the library's version
\* (native_raises).
ChromaVectorStore_add(coll, records, native_raises) ==
  IF HasDuplicateIds(records)
  THEN [coll |-> coll, outcome |-> BackendRaised("DuplicateIDError")]
  ELSE IF Cardinality({Len(records[i].embedding) : i \in DOMAIN records}
                      \cup {Len(coll[i].embedding) : i \in DOMAIN coll}) > 1
  THEN [coll |-> coll, outcome |-> BackendRaised("InvalidDimensionException")]
  ELSE IF native_raises /\ \E i \in DOMAIN records : records[i].id \in DOMAIN coll
  THEN [coll |-> ChromaWrite(coll, records, TRUE), outcome |-> [status |-> "ok"]]
  ELSE [coll |-> ChromaWrite(coll, records, FALSE), outcome |-> [status |-> "ok"]]

\* ---- Backend B: FAISSVectorStore
\* FAISSVectorStore.dimension, as the store is constructed here
Dimension == 2

EmptyFaiss ==
  [ index |-> <<>>, metadata_store |-> EmptyMap, id_to_index |-> EmptyMap,
    index_to_id |-> EmptyMap, documents |-> EmptyMap ]

NoFile == [exists |-> FALSE]
EmptyDisk == [index_file |-> NoFile, metadata_file |-> NoFile]

\* the loop of FAISSVectorStore.add: current_index = index.ntotal + i
RECURSIVE FaissAddLoop(_, _, _, _)
FaissAddLoop(st, records, ntotal, i) ==
  IF i >= Len(records) THEN st
  ELSE LET record == records[i + 1]
           current_index == ntotal + i
       IN FaissAddLoop(
            [ st EXCEPT
                !.id_to_index = Put(@, record.id, current_index),
                !.index_to_id = Put(@, current_index, record.id),
                !.metadata_store = Put(@, record.id, record.metadata),
                !.documents = Put(@, record.id, record.document) ],
            records, ntotal, i + 1)

\* FAISSVectorStore.add.  The loop registers every record in the side tables
\* before the vectors reach the index: np.vstack raises ValueError on
\* embeddings of unequal lengths and index.add asserts that their length is
\* the index dimension, and neither failure is caught or undone.
FAISSVectorStore_add(st, records) ==
  IF records = <<>> THEN [st |-> st, outcome |-> [status |-> "ok"]]
  ELSE
    LET registered == FaissAddLoop(st, records, Len(st.index), 0)
        lengths == {Len(records[i].embedding) : i \in DOMAIN records}
    IN IF Cardinality(lengths) > 1
       THEN [st |-> registered, outcome |-> BackendRaised("ValueError")]
       ELSE IF lengths # {Dimension}
       THEN [st |-> registered, outcome |-> BackendRaised("AssertionError")]
       ELSE [ st |-> [ registered EXCEPT
                         !.index = @ \o [i \in DOMAIN records |->
                                           Normalize(records[i].embedding)] ],
              outcome |-> [status |-> "ok"] ]

\* index.search: the k stored vectors of largest inner product with qn, best
\* first (ties by position), as 0-based positions; fewer when the index holds
\* fewer (the -1 padding, which query skips)
RECURSIVE FaissSearch(_, _, _, _)
FaissSearch(index, qn, k, cand) ==
  IF k = 0 \/ cand = {} THEN <<>>
  ELSE LET sc(i) == InnerProduct(index[i + 1], qn)
           best == CHOOSE i \in cand :
                     \A j \in cand \ {i} :
                       RatLT(sc(j), sc(i)) \/ (RatEQ(sc(i), sc(j)) /\ i < j)
       IN <<best>> \o FaissSearch(index, qn, k - 1, cand \ {best})

\* the result-formatting loop of FAISSVectorStore.query
RECURSIVE FaissCollect(_, _, _, _, _)
FaissCollect(st, qn, hits, where, acc) ==
  IF hits = <<>> THEN acc
  ELSE
    LET idx == Head(hits)
        known == idx \in DOMAIN st.index_to_id
        record_id == st.index_to_id[idx]
        md == IF record_id \in DOMAIN st.metadata_store
              THEN st.metadata_store[record_id] ELSE EmptyMap
        keep == known /\ (where = {} \/ matches_filter(md, where))
    IN FaissCollect(st, qn, Tail(hits), where,
         IF ~keep THEN acc
         ELSE [ acc EXCEPT
                  !.ids = Append(@, record_id),
                  !.metadatas = Append(@, md),
                  !.documents = Append(@,
                     IF record_id \in DOMAIN st.documents
                     THEN st.documents[record_id] ELSE ""),
                  !.distances = Append(@, InnerProduct(st.index[idx + 1], qn)) ])

\* query without the test for an empty index
FAISSVectorStore_query_Unguarded(st, q, n_results, where) ==
  IF n_results <= 0 THEN BackendRaised("AssertionError")
  ELSE FaissCollect(st, Normalize(q),
         FaissSearch(st.index, Normalize(q), n_results,
                     0..(Len(st.index) - 1)),
         where, EmptyResults)

\* FAISSVectorStore.query for one query embedding; index.search asserts k > 0
FAISSVectorStore_query(st, q, n_results, where) ==
  IF Len(st.index) = 0 THEN EmptyResults
  ELSE IF n_results <= 0 THEN BackendRaised("AssertionError")
  ELSE FaissCollect(st, Normalize(q),
         FaissSearch(st.index, Normalize(q), n_results,
                     0..(Len(st.index) - 1)),
         where, EmptyResults)

FAISSVectorStore_save(st) ==
  [ index_file |-> [exists |-> TRUE, data |-> st.index],
    metadata_file |-> [exists |-> TRUE,
                       data |-> [ metadata_store |-> st.metadata_store,
                                  id_to_index |-> st.id_to_index,
                                  index_to_id |-> st.index_to_id,
                                  documents |-> st.documents ]] ]

\* load that reads the index artifact only
FAISSVectorStore_load_IndexOnly(st, dk) ==
  IF dk.index_file.exists THEN [st EXCEPT !.index = dk.index_file.data] ELSE st

FAISSVectorStore_load(st, dk) ==
  LET st1 == IF dk.index_file.exists
             THEN [st EXCEPT !.index = dk.index_file.data] ELSE st
  IN IF dk.metadata_file.exists
     THEN [ st1 EXCEPT
              !.metadata_store = dk.metadata_file.data.metadata_store,
              !.id_to_index = dk.metadata_file.data.id_to_index,
              !.index_to_id = dk.metadata_file.data.index_to_id,
              !.documents = dk.metadata_file.data.documents ]
     ELSE st1

\* the persisted artifacts that exist
Artifacts(dk) ==
  {a \in {"index.faiss", "metadata.pkl"} :
     IF a = "index.faiss" THEN dk.index_file.exists ELSE dk.metadata_file.exists}

\* reset that clears the instance and leaves the directory alone
FAISSVectorStore_reset_KeepingArtifacts(st, dk) == [st |-> EmptyFaiss, disk |-> dk]

\* FAISSVectorStore.reset: the side tables are cleared, the index is
\* initialised anew and both artifacts are removed from the directory
FAISSVectorStore_reset(st, dk) == [st |-> EmptyFaiss, disk |-> EmptyDisk]

\* ---------------------------------------------------- retrieval.py
Metrics == {"cosine", "dot", "euclidean"}

\* the list left untrimmed
Trim_Untrimmed(lst, top_k) == lst

\* lst[:top_k]
Trim(lst, top_k) ==
  IF top_k >= 0 THEN SubSeq(lst, 1, Min(top_k, Len(lst)))
  ELSE SubSeq(lst, 1, Max(0, Len(lst) + top_k))

RatMax0(r) == IF r[1] < 0 THEN <<0, r[2]>> ELSE r

\* max(0, 1 - d/2) and 1 / (1 + d) on an L2 distance
ChromaCosine(d) == RatMax0(<<2 * d[2] - d[1], 2 * d[2]>>)
ChromaEuclidean(d) == <<d[2], d[2] + d[1]>>

\* 1 / (2 - d) if d < 2 else 0.01, on an inner product
FaissEuclidean(d) ==
  IF d[1] < 2 * d[2] THEN <<d[2], 2 * d[2] - d[1]>> ELSE <<1, 100>>

\* the number of results search asks Backend B for
FaissFetch(top_k, similarity_metric) ==
  IF similarity_metric = "cosine" THEN top_k ELSE Min(top_k * 2, 100)

\* UnifiedRetriever.search once the query is embedded as query_vec
search_embedded(stype, coll, st, query_vec, top_k, similarity_metric, where) ==
  IF stype = "chroma"
  THEN
    LET results == ChromaVectorStore_query(coll, query_vec, top_k, where)
    IN IF results.status # "ok" THEN results
       ELSE IF similarity_metric = "cosine"
            THEN [results EXCEPT !.distances = [i \in DOMAIN @ |-> ChromaCosine(@[i])]]
       ELSE IF similarity_metric = "euclidean"
            THEN [results EXCEPT !.distances = [i \in DOMAIN @ |-> ChromaEuclidean(@[i])]]
       ELSE results
  ELSE
    LET results == FAISSVectorStore_query(st, query_vec,
                     FaissFetch(top_k, similarity_metric), where)
    IN IF results.status # "ok" \/ similarity_metric = "cosine" THEN results
       ELSE
         LET conv == IF similarity_metric = "euclidean"
                     THEN [results EXCEPT !.distances = [i \in DOMAIN @ |-> FaissEuclidean(@[i])]]
                     ELSE results
         IN [ conv EXCEPT
                !.ids = Trim(@, top_k),
                !.distances = Trim(@, top_k),
                !.metadatas = Trim(@, top_k),
                !.documents = Trim(@, top_k) ]

\* UnifiedRetriever.search: the metric check, embed_query (which may fail to
\* load the model), then the backend
UnifiedRetriever_search(stype, coll, st, embed_ok, query_vec, top_k, similarity_metric, where) ==
  IF similarity_metric \notin Metrics
  THEN [status |-> "raised", error |-> "ValueError", raised_by |-> "retriever",
        backend_queried |-> FALSE]
  ELSE IF ~embed_ok
  THEN [status |-> "raised", error |-> "Exception", raised_by |-> "embedding",
        backend_queried |-> FALSE]
  ELSE search_embedded(stype, coll, st, query_vec, top_k, similarity_metric,
                       where) @@ [backend_queried |-> TRUE]

\* ---- AdvancedRetriever
RatAdd(a, b) == <<a[1] * b[2] + b[1] * a[2], a[2] * b[2]>>
RatMul(a, b) == <<a[1] * b[1], a[2] * b[2]>>

\* initial_k = min(top_k * 3, 50) when the caller gives none (None is 0 here)
InitialK(top_k, initial_k) ==
  IF initial_k = 0 THEN Min(top_k * 3, 50) ELSE initial_k

\* AdvancedRetriever.search_with_reranking: search at initial_k, a warning
\* when the metrics differ, then every list cut to top_k
AdvancedRetriever_search_with_reranking(stype, coll, st, embed_ok, query_vec, top_k, initial_k, similarity_metric, rerank_metric, where) ==
  LET initial_results ==
        UnifiedRetriever_search(stype, coll, st, embed_ok, query_vec,
          InitialK(top_k, initial_k), similarity_metric, where)
  IN IF initial_results.status # "ok" THEN initial_results
     ELSE [ status |-> "ok",
            ids |-> Trim(initial_results.ids, top_k),
            distances |-> Trim(initial_results.distances, top_k),
            metadatas |-> Trim(initial_results.metadatas, top_k),
            documents |-> Trim(initial_results.documents, top_k) ]

\* sum(1 for term in query_terms if term in doc_lower): documents and terms
\* are single lower-case words, so a term occurs in a document when it is
\* that word
TermHits(query_terms, doc) ==
  Cardinality({t \in DOMAIN query_terms : query_terms[t] = doc})

\* semantic_weight * semantic_score + keyword_weight * keyword_score
HybridScore(w, semantic_score, query_terms, doc) ==
  RatAdd(RatMul(w.semantic, semantic_score),
         RatMul(w.keyword, <<TermHits(query_terms, doc), Len(query_terms)>>))

\* AdvancedRetriever.search_hybrid: cosine search at top_k * 2, then the
\* distance of every result with a non-empty document is replaced by its
\* hybrid score; a query without terms divides by zero there
AdvancedRetriever_search_hybrid(stype, coll, st, embed_ok, query_vec, query_terms, top_k, w, where) ==
  LET semantic_results ==
        UnifiedRetriever_search(stype, coll, st, embed_ok, query_vec,
                                top_k * 2, "cosine", where)
  IN IF semantic_results.status # "ok" THEN semantic_results
     ELSE IF query_terms = <<>> /\ \E j \in DOMAIN semantic_results.documents :
                                     semantic_results.documents[j] # ""
     THEN [status |-> "raised", error |-> "ZeroDivisionError",
           raised_by |-> "retriever", backend_queried |-> TRUE]
     ELSE [ semantic_results EXCEPT
              !.distances = [j \in DOMAIN @ |->
                 IF semantic_results.documents[j] # ""
                 THEN HybridScore(w, @[j], query_terms,
                                  semantic_results.documents[j])
                 ELSE @[j]] ]

\* ---------------------------------------------------------------- state
Rows == [key : KeyDomain, vlen : {DefaultValLen}]

RECURSIVE SeqsUpTo(_, _)
SeqsUpTo(S, n) ==
  IF n = 0 THEN {<<>>}
  ELSE LET prev == SeqsUpTo(S, n - 1)
       IN prev \cup {Append(s, x) : s \in {t \in prev : Len(t) = n - 1}, x \in S}

Datasets == SeqsUpTo(Rows, MaxRows)

StoreInitial ==
  /\ collection = EmptyMap
  /\ faiss = EmptyFaiss
  /\ disk = EmptyDisk
  /\ scall = [op |-> "none"]
  /\ sresult = NoResult

InitChunk ==
  /\ dataset \in Datasets
  /\ call = [op |-> "none"]
  /\ result = NoResult
  /\ store_type = "chroma"
  /\ StoreInitial

Idle == call.op = "none"

FixedSizeChunk ==
  /\ Idle
  /\ \E chunk_size \in (-1)..MaxChunkSize, overlap \in (-1)..MaxChunkSize :
       /\ call' = [op |-> "fixed_size", chunk_size |-> chunk_size,
                   overlap |-> overlap]
       /\ result' = FixedSizeChunker_chunk(dataset, chunk_size, overlap)
  /\ UNCHANGED <<dataset, storeVars>>

SemanticChunk ==
  /\ Idle
  /\ \E n_clusters \in 0..MaxClusters, deps_available \in BOOLEAN :
       \E primary \in PrimaryOutcomes(dataset, n_clusters) :
         /\ call' = [op |-> "semantic", n_clusters |-> n_clusters,
                     deps_available |-> deps_available,
                     primary_raises |-> primary.raises]
         /\ result' = SemanticChunker_chunk(dataset, n_clusters,
                                            deps_available, primary)
  /\ UNCHANGED <<dataset, storeVars>>

DocumentBasedChunk ==
  /\ Idle
  /\ \E key_column \in {"key", "missing"}, token_limit \in 0..MaxTokenLimit,
        preserve_headers \in BOOLEAN :
       /\ call' = [op |-> "document_based", key_column |-> key_column,
                   token_limit |-> token_limit,
                   preserve_headers |-> preserve_headers]
       /\ result' = DocumentBasedChunker_chunk(dataset, key_column,
                                               token_limit, preserve_headers)
  /\ UNCHANGED <<dataset, storeVars>>

\* the chunk lists handed to the assessor: up to MaxChunks chunks of 0 to
\* MaxRows + 1 rows each, whatever the source holds
ChunkLists ==
  {[i \in DOMAIN sizes |-> Iloc(sizes[i], 0, sizes[i])] :
     sizes \in SeqsUpTo(0..(MaxRows + 1), MaxChunks)}

\* ChunkingQualityAssessment.comprehensive_assessment called on its own
Assess ==
  /\ Idle
  /\ \E chunks \in ChunkLists :
       /\ call' = [op |-> "assess", chunks |-> chunks]
       /\ result' = [ status |-> "ok", chunks |-> chunks,
                      quality_report |->
                        comprehensive_assessment(chunks, Len(dataset)) ]
  /\ UNCHANGED <<dataset, storeVars>>

NextChunk == FixedSizeChunk \/ SemanticChunk \/ DocumentBasedChunk \/ Assess

SpecChunk == InitChunk /\ [][NextChunk]_vars

\* what RecursiveCharacterTextSplitter can do: raise on its parameters, or
\* return 0 to MaxChunks + 1 text chunks (of one character each)
SplitOutcomes ==
  {[raises |-> TRUE, text_chunks |-> <<>>]} \cup
  {[raises |-> FALSE, text_chunks |-> [i \in 1..k |-> 1]] :
     k \in 0..(MaxChunks + 1)}

\* overlap values on both sides of the 100-character unit of the fallback
Overlaps == {-50, 50, 100, 200}

RecursiveChunk ==
  /\ Idle
  /\ \E chunk_size \in 0..MaxChars, overlap \in Overlaps,
        langchain_available \in BOOLEAN :
       \E split \in IF langchain_available THEN SplitOutcomes
                     ELSE {[raises |-> FALSE, text_chunks |-> <<>>]} :
         /\ call' = [op |-> "recursive", chunk_size |-> chunk_size,
                     overlap |-> overlap,
                     langchain_available |-> langchain_available]
         /\ result' = RecursiveChunker_chunk(dataset, chunk_size, overlap,
                                             langchain_available, split)
  /\ UNCHANGED <<dataset, storeVars>>

NextRecursive == RecursiveChunk

SpecRecursive == InitChunk /\ [][NextRecursive]_vars

\* the outcomes of the embedding model and KMeans followed here: every
\* labelling on frames of up to MaxClusterRows rows, a failure on any frame
FrameOutcomes(df, n_clusters) ==
  IF Len(df) <= MaxClusterRows THEN PrimaryOutcomes(df, n_clusters)
  ELSE {[raises |-> TRUE, labels |-> <<>>]}

\* SemanticChunker.chunk together with what it leaves in the caller's frame
SemanticChunkOnFrame ==
  /\ Idle
  /\ \E n_clusters \in 0..MaxClusters, deps_available \in BOOLEAN :
       \E primary \in FrameOutcomes(dataset, n_clusters) :
         LET res == SemanticChunker_chunk(dataset, n_clusters,
                                          deps_available, primary)
         IN /\ call' = [op |-> "semantic", n_clusters |-> n_clusters,
                        deps_available |-> deps_available,
                        primary_raises |-> primary.raises]
            /\ result' = res
            /\ dataset' = SemanticChunker_source_after(dataset, res)
  /\ UNCHANGED storeVars

NextChunkers ==
  FixedSizeChunk \/ SemanticChunkOnFrame \/ DocumentBasedChunk
    \/ RecursiveChunk

SpecChunkers == InitChunk /\ [][NextChunkers]_vars

\* ------------------------------------------------ store / retriever state

Batches == UNION {[1..n -> VectorRecords] : n \in 1..MaxBatch}

\* no store / retriever call is in progress
Ready == scall.op = "none"

\* records as callers may hand them over: embeddings of another length,
\* metadata values that are lists or None
RawVecs == {<<3, 4>>, <<1, 2, 2>>}
RawMetas == {[src |-> MdStr("a")], [src |-> MdList], [src |-> MdNone]}
RawRecords == [id : Ids, embedding : RawVecs, metadata : RawMetas, document : Docs]
RawBatches == UNION {[1..n -> RawRecords] : n \in 1..MaxBatch}

\* ChromaVectorStore.add / FAISSVectorStore.add on a batch of records
AddRecords(records) ==
    /\ Ready
    /\ scall' = [op |-> "add", records |-> records]
    /\ \/ /\ store_type = "chroma"
          /\ \E native_raises \in BOOLEAN :
               LET r == ChromaVectorStore_add(collection, records, native_raises)
               IN collection' = r.coll /\ sresult' = r.outcome
          /\ UNCHANGED <<faiss, disk>>
       \/ /\ store_type = "faiss"
          /\ Len(faiss.index) + Len(records) <= MaxVectors
          /\ LET r == FAISSVectorStore_add(faiss, records)
             IN faiss' = r.st /\ sresult' = r.outcome
          /\ UNCHANGED <<collection, disk>>
    /\ UNCHANGED <<store_type, chunkVars>>

Add == \E records \in Batches : AddRecords(records)

Ingest == \E records \in RawBatches : AddRecords(records)

\* ChromaVectorStore.reset / FAISSVectorStore.reset
Reset ==
  /\ Ready
  /\ sresult' = [status |-> "ok"]
  /\ \/ /\ store_type = "chroma"
        /\ scall' = [op |-> "reset", removed |-> {}]
        /\ collection' = EmptyMap
        /\ UNCHANGED <<faiss, disk>>
     \/ /\ store_type = "faiss"
        /\ scall' = [op |-> "reset", removed |-> Artifacts(disk)]
        /\ faiss' = FAISSVectorStore_reset(faiss, disk).st
        /\ disk' = FAISSVectorStore_reset(faiss, disk).disk
        /\ UNCHANGED collection
  /\ UNCHANGED <<store_type, chunkVars>>

Save ==
  /\ Ready
  /\ store_type = "faiss"
  /\ scall' = [op |-> "save"]
  /\ sresult' = [status |-> "ok"]
  /\ disk' = FAISSVectorStore_save(faiss)
  /\ UNCHANGED <<faiss, collection, store_type, chunkVars>>

Load ==
  /\ Ready
  /\ store_type = "faiss"
  /\ scall' = [op |-> "load"]
  /\ sresult' = [status |-> "ok"]
  /\ faiss' = FAISSVectorStore_load(faiss, disk)
  /\ UNCHANGED <<disk, collection, store_type, chunkVars>>

Search ==
  \E embed_ok \in BOOLEAN, query_vec \in Vecs, top_k \in (-1)..MaxTopK,
     similarity_metric \in Metrics \cup {"manhattan"}, where \in Wheres :
    /\ Ready
    /\ scall' = [op |-> "search", embed_ok |-> embed_ok,
                 query_vec |-> query_vec, top_k |-> top_k,
                 similarity_metric |-> similarity_metric, where |-> where]
    /\ sresult' = UnifiedRetriever_search(store_type, collection, faiss,
                    embed_ok, query_vec, top_k, similarity_metric, where)
    /\ UNCHANGED <<store_type, collection, faiss, disk, chunkVars>>

\* store.query called on the backend directly, with one query embedding
Query ==
  \E query_vec \in Vecs, n_results \in (-1)..MaxTopK, where \in Wheres :
    /\ Ready
    /\ scall' = [op |-> "query", query_vec |-> query_vec,
                 n_results |-> n_results, where |-> where]
    /\ sresult' = IF store_type = "chroma"
                  THEN ChromaVectorStore_query(collection, query_vec, n_results, where)
                  ELSE FAISSVectorStore_query(faiss, query_vec, n_results, where)
    /\ UNCHANGED <<store_type, collection, faiss, disk, chunkVars>>

\* UnifiedRetriever.__init__ on the same persist directory: Backend A reopens
\* its persistent collection, Backend B is constructed empty and load()ed
NewInstance ==
  /\ Ready
  /\ scall' = [op |-> "init"]
  /\ sresult' = [status |-> "ok"]
  /\ \/ /\ store_type = "chroma"
        /\ UNCHANGED faiss
     \/ /\ store_type = "faiss"
        /\ faiss' = FAISSVectorStore_load(EmptyFaiss, disk)
  /\ UNCHANGED <<store_type, collection, disk, chunkVars>>

\* one of the two artifacts is missing from the persist directory when the
\* store next looks (os.path.exists is false for it)
ArtifactLost ==
  /\ Ready
  /\ disk.index_file.exists /\ disk.metadata_file.exists
  /\ \/ disk' = [disk EXCEPT !.index_file = NoFile]
     \/ disk' = [disk EXCEPT !.metadata_file = NoFile]
  /\ UNCHANGED <<store_type, collection, faiss, scall, sresult, chunkVars>>

\* the call returns to its caller, which takes the result
Complete ==
  /\ ~Ready
  /\ scall' = [op |-> "none"]
  /\ sresult' = NoResult
  /\ UNCHANGED <<store_type, collection, faiss, disk, chunkVars>>

InitStore ==
  /\ dataset = <<>>
  /\ call = [op |-> "none"]
  /\ result = NoResult
  /\ store_type \in {"chroma", "faiss"}
  /\ StoreInitial

NextStore == Add \/ Reset \/ Search \/ Query \/ Complete

SpecStore == InitStore /\ [][NextStore]_vars

\* ------------------------------------------------ AdvancedRetriever calls
\* records whose documents differ: one word each
WordRecords ==
  [id : Ids, embedding : {<<3, 4>>, <<8, 6>>},
   metadata : {[src |-> MdStr("a")]}, document : {"text", "row"}]

AddWords ==
  \E records \in UNION {[1..n -> WordRecords] : n \in 1..MaxBatch} :
    AddRecords(records)

\* query.lower().split() of the queries asked
QueryTerms == {<<>>, <<"text">>, <<"row">>, <<"text", "csv">>}

\* (keyword_weight, semantic_weight): the defaults 0.3 and 0.7, and keywords
\* only
Weights ==
  { [keyword |-> <<3, 10>>, semantic |-> <<7, 10>>],
    [keyword |-> <<1, 1>>, semantic |-> <<0, 1>>] }

SearchHybrid ==
  \E embed_ok \in BOOLEAN, query_terms \in QueryTerms, top_k \in 0..MaxTopK,
     w \in Weights :
    /\ Ready
    /\ scall' = [op |-> "search_hybrid", embed_ok |-> embed_ok,
                 query_vec |-> <<3, 4>>, query_terms |-> query_terms,
                 top_k |-> top_k, weights |-> w]
    /\ sresult' = AdvancedRetriever_search_hybrid(store_type, collection,
                    faiss, embed_ok, <<3, 4>>, query_terms, top_k, w, {})
    /\ UNCHANGED <<store_type, collection, faiss, disk, chunkVars>>

\* the top_k values asked of search_with_reranking: small ones and the ones
\* around the cap of 50 on the default initial_k
RerankTopKs == (0..MaxTopK) \cup {50, 51, 100}

SearchWithReranking ==
  \E embed_ok \in BOOLEAN, top_k \in RerankTopKs, initial_k \in 0..MaxTopK,
     similarity_metric \in Metrics, rerank_metric \in {"cosine", "dot"} :
    /\ Ready
    /\ scall' = [op |-> "search_with_reranking", embed_ok |-> embed_ok,
                 query_vec |-> <<3, 4>>, top_k |-> top_k,
                 initial_k |-> initial_k,
                 similarity_metric |-> similarity_metric,
                 rerank_metric |-> rerank_metric]
    /\ sresult' = AdvancedRetriever_search_with_reranking(store_type,
                    collection, faiss, embed_ok, <<3, 4>>, top_k, initial_k,
                    similarity_metric, rerank_metric, {})
    /\ UNCHANGED <<store_type, collection, faiss, disk, chunkVars>>

NextAdvanced == AddWords \/ SearchHybrid \/ SearchWithReranking \/ Complete

SpecAdvanced == InitStore /\ [][NextAdvanced]_vars

\* ------------------------------------ Backend B and its persist directory
InitPersist ==
  /\ dataset = <<>>
  /\ call = [op |-> "none"]
  /\ result = NoResult
  /\ store_type = "faiss"
  /\ StoreInitial

NextPersist == Add \/ Reset \/ Save \/ Load \/ NewInstance \/ Complete

SpecPersist == InitPersist /\ [][NextPersist]_vars

\* ------------------------------------------- Backend B, concurrent queries
\* the dictionary reads of one pass of the result loop, removing what they
\* read (index_to_id.pop(idx))
QueryReads_Pop(st, idx) ==
  [st EXCEPT !.index_to_id =
     [k \in (DOMAIN st.index_to_id) \ {idx} |-> st.index_to_id[k]]]

\* the store after the dictionary reads of one pass of the result loop:
\* index_to_id.get(idx), metadata_store.get(record_id, {}) and
\* documents.get(record_id, "") insert nothing
QueryReads(st, idx) == st

\* the queries two callers issue at the same time
QueryCalls ==
  [query_vec : Vecs, n_results : 1..MaxTopK, where : Wheres]

\* a caller inside FAISSVectorStore.query: before the index is looked at
StartedQuery(c) ==
  [ pc |-> "start", query_vec |-> c.query_vec, n_results |-> c.n_results,
    where |-> c.where, hits |-> <<>>, results |-> EmptyResults ]

\* the next step of a caller against the store as it is now: the test for an
\* empty index and index.search, then one pass of the result loop per hit
QueryThreadStep(st, th) ==
  IF th.pc = "start"
  THEN IF Len(st.index) = 0 THEN [th EXCEPT !.pc = "done"]
       ELSE [th EXCEPT !.pc = "collect",
                       !.hits = FaissSearch(st.index, Normalize(th.query_vec),
                                  th.n_results, 0..(Len(st.index) - 1))]
  ELSE IF th.hits = <<>> THEN [th EXCEPT !.pc = "done"]
  ELSE [th EXCEPT !.hits = Tail(@),
                  !.results = FaissCollect(st, Normalize(th.query_vec),
                                <<Head(th.hits)>>, th.where, @)]

\* one add on the fresh instance fills the index
AddOnce ==
  /\ Len(faiss.index) = 0
  /\ Add

\* two callers enter query() while no other call is in progress; they ask
\* for as many results under the same filter, each with its own embedding
BeginQueries ==
  /\ Ready
  /\ \E c1 \in QueryCalls, c2 \in QueryCalls :
       /\ c1.where = c2.where
       /\ c1.n_results = c2.n_results
       /\ scall' = [op |-> "queries",
                    threads |-> <<StartedQuery(c1), StartedQuery(c2)>>]
  /\ sresult' = [status |-> "pending"]
  /\ UNCHANGED <<store_type, collection, faiss, disk, chunkVars>>

\* either caller takes its next step
QueryStep ==
  /\ scall.op = "queries"
  /\ \E t \in 1..2 :
       LET th == scall.threads[t]
       IN /\ th.pc # "done"
          /\ scall' = [scall EXCEPT !.threads[t] = QueryThreadStep(faiss, th)]
          /\ faiss' = IF th.pc = "collect" /\ th.hits # <<>>
                      THEN QueryReads(faiss, Head(th.hits)) ELSE faiss
  /\ sresult' = IF \A t \in 1..2 : scall'.threads[t].pc = "done"
                THEN [status |-> "ok"] ELSE sresult
  /\ UNCHANGED <<store_type, collection, disk, chunkVars>>

NextConcurrent == AddOnce \/ BeginQueries \/ QueryStep \/ Complete

SpecConcurrent == InitPersist /\ [][NextConcurrent]_vars

\* the same with an artifact that may go missing between save and load
NextPartial ==
  Add \/ Save \/ Load \/ NewInstance \/ ArtifactLost \/ Complete

SpecPartial == InitPersist /\ [][NextPartial]_vars

\* ------------------------------------------- stores fed unchecked records
NextIngest == Ingest \/ Query \/ Reset \/ Complete

SpecIngest == InitStore /\ [][NextIngest]_vars

\* ================================================================ claims
AllRows == Iloc(Len(dataset), 0, Len(dataset))

FixedOk == call.op = "fixed_size" /\ result.status = "ok"

\* C1: fixed-size chunking with overlap = 0 and chunk_size > 0 on a non-empty
\* dataset returns chunks whose concatenation, in order, is the source rows
\* exactly (every row once), and reports coverage 1.0.
C1_FixedNoOverlapReconstructs ==
  (call.op = "fixed_size" /\ call.overlap = 0 /\ call.chunk_size > 0
     /\ Len(dataset) > 0) =>
    /\ result.status = "ok"
    /\ Concat(result.chunks) = AllRows
    /\ result.quality_report.coverage[1] = result.quality_report.coverage[2]

C1_Witness ==
  /\ FixedOk /\ call.overlap = 0
  /\ Len(result.chunks) >= 2
  /\ Len(result.chunks[Len(result.chunks)]) < call.chunk_size

\* the last k and the first k elements of a sequence
LastK(s, k) == [i \in 1..k |-> s[Len(s) - k + i]]
FirstK(s, k) == [i \in 1..k |-> s[i]]

\* C2: fixed-size chunking with 0 < overlap < chunk_size: every pair of
\* consecutive chunks that does not end in the last chunk shares exactly
\* `overlap` rows, the last `overlap` rows of the first being the first
\* `overlap` rows of the second.
C2_FixedConsecutiveOverlap ==
  (FixedOk /\ call.overlap > 0) =>
    \A i \in 1..(Len(result.chunks) - 2) :
      LET a == result.chunks[i]
          b == result.chunks[i + 1]
      IN /\ Len(a) >= call.overlap /\ Len(b) >= call.overlap
         /\ LastK(a, call.overlap) = FirstK(b, call.overlap)
         /\ Cardinality(SeqRange(a) \cap SeqRange(b)) = call.overlap

C2_Witness ==
  /\ FixedOk /\ call.overlap > 0
  /\ Len(result.chunks) >= 3

SemanticFallbackRan ==
  /\ call.op = "semantic" /\ Len(dataset) > 0 /\ call.n_clusters > 0
  /\ (~call.deps_available \/ call.primary_raises)

\* C3: the semantic fallback path with n_clusters > 0 partitions the dataset
\* into contiguous, pairwise disjoint blocks that together hold every source
\* row exactly once, n_clusters of them when the dataset has that many rows.
C3_FallbackPartitions ==
  SemanticFallbackRan =>
    /\ result.status = "ok"
    /\ Concat(result.chunks) = AllRows
    /\ (call.n_clusters <= Len(dataset) =>
          Len(result.chunks) = call.n_clusters)

DocOk == call.op = "document_based" /\ result.status = "ok"

NoGroupSplit ==
  \A i \in DOMAIN result.metadata :
    ~result.metadata[i].additional_metadata.is_subchunk

\* the chunks (by index) that hold source row `pos`
ChunksHolding(pos) ==
  {i \in DOMAIN result.chunks : pos \in SeqRange(result.chunks[i])}

\* C4: document-based chunking, when no group exceeds token_limit, emits one
\* chunk per distinct key value, every source row belongs to exactly one
\* chunk, and the chunk sizes sum to the dataset's row count.
C4_DocPartitionsRows ==
  (DocOk /\ call.token_limit > 0 /\ NoGroupSplit) =>
    /\ Len(result.chunks)
         = Cardinality({dataset[i].key : i \in DOMAIN dataset} \ {Null})
    /\ \A pos \in SeqRange(AllRows) : Cardinality(ChunksHolding(pos)) = 1
    /\ SumSeq([i \in DOMAIN result.chunks |-> Len(result.chunks[i])])
         = Len(dataset)

KeyOfChunk(i) == result.metadata[i].additional_metadata.key_value

\* position (1-based) of the first row with key k
FirstRowWith(k) ==
  CHOOSE i \in DOMAIN dataset :
    dataset[i].key = k /\ \A j \in 1..(i - 1) : dataset[j].key # k

\* C5 as stated: groups are emitted in first-seen order of their key: when
\* the first row with key a precedes the first row with key b, every chunk
\* of group a precedes every chunk of group b.
C5_FirstSeenGroupOrder ==
  DocOk =>
    \A i, j \in DOMAIN result.chunks :
      (KeyOfChunk(i) # KeyOfChunk(j)
         /\ FirstRowWith(KeyOfChunk(i)) < FirstRowWith(KeyOfChunk(j)))
        => i < j

\* C5 (amended): groups are emitted in ascending order of their key value:
\* every chunk of the group with the smaller key precedes every chunk of the
\* group with the larger key, whatever the order of the rows.
C5_AscendingKeyOrder ==
  DocOk =>
    \A i, j \in DOMAIN result.chunks :
      KeyOfChunk(i) < KeyOfChunk(j) => i < j

C5_Witness ==
  /\ DocOk
  /\ \E i, j \in DOMAIN result.chunks :
       /\ KeyOfChunk(i) < KeyOfChunk(j)
       /\ FirstRowWith(KeyOfChunk(j)) < FirstRowWith(KeyOfChunk(i))

\* the chunks of the group with key k, in result order
RECURSIVE ChunkIdxOfKey(_, _, _)
ChunkIdxOfKey(k, i, acc) ==
  IF i > Len(result.chunks) THEN acc
  ELSE ChunkIdxOfKey(k, i + 1, IF KeyOfChunk(i) = k THEN Append(acc, i) ELSE acc)

GroupOf(k) == GroupRows(dataset, k, 1, <<>>)
GroupTokens(k) == token_estimate(dataset, GroupOf(k), call.preserve_headers)
OverLimitKeys ==
  {k \in SeqRange(GroupKeys(dataset)) : GroupTokens(k) > call.token_limit}

CeilTokens(k) ==
  (GroupTokens(k) + call.token_limit - 1) \div call.token_limit
FloorTokensPlusOne(k) == (GroupTokens(k) \div call.token_limit) + 1

\* what C6 says of the sub-chunks of every over-limit group, the number of
\* sub-chunks being the ceiling (as_ceiling) or the floor plus one
SubchunksWellFormed(as_ceiling) ==
  \A k \in OverLimitKeys :
    LET idx == ChunkIdxOfKey(k, 1, <<>>)
    IN /\ Len(idx) = (IF as_ceiling THEN CeilTokens(k)
                                   ELSE FloorTokensPlusOne(k))
       /\ \A n \in 1..(Len(idx) - 1) : idx[n + 1] = idx[n] + 1
       /\ Concat([n \in DOMAIN idx |-> result.chunks[idx[n]]]) = GroupOf(k)
       /\ \A n \in DOMAIN idx :
            LET am == result.metadata[idx[n]].additional_metadata
            IN /\ am.is_subchunk
               /\ am.subchunk_index = n
               /\ 1 <= am.subchunk_index
               /\ am.subchunk_index <= am.total_subchunks
               /\ am.total_subchunks = Len(idx)

\* C6 as stated: a group whose token_count exceeds token_limit is split into
\* exactly ceil(token_count / token_limit) sub-chunks, contiguous, disjoint
\* and covering the group in order, tagged is_subchunk with
\* 1 <= subchunk_index <= total_subchunks = number of sub-chunks emitted.
C6_CeilSubchunks ==
  DocOk => SubchunksWellFormed(TRUE)

\* C6 (amended): such a group is split into exactly
\* floor(token_count / token_limit) + 1 sub-chunks (one more than the ceiling
\* when token_limit divides token_count), contiguous, disjoint and covering
\* the group in order, tagged as stated.
C6_FloorPlusOneSubchunks ==
  DocOk => SubchunksWellFormed(FALSE)

C6_Witness ==
  /\ DocOk
  /\ \E k \in OverLimitKeys :
       /\ GroupTokens(k) % call.token_limit = 0
       /\ Len(GroupOf(k)) >= FloorTokensPlusOne(k)
       /\ \A n \in DOMAIN ChunkIdxOfKey(k, 1, <<>>) :
            result.chunks[ChunkIdxOfKey(k, 1, <<>>)[n]] # <<>>

\* C7: semantic chunking of a non-empty dataset with n_clusters > 0 never
\* propagates a failure of the primary path: with the dependencies missing
\* or the primary path raising, chunk() returns the fallback's result, every
\* chunk tagged chunking_method = "semantic_fallback".
C7_SemanticFailureFallsBack ==
  SemanticFallbackRan =>
    /\ result.status = "ok"
    /\ Len(result.chunks) >= 1
    /\ \A i \in DOMAIN result.metadata :
         result.metadata[i].additional_metadata.chunking_method
           = "semantic_fallback"

C7_Witness ==
  /\ SemanticFallbackRan
  /\ call.deps_available /\ call.primary_raises
  /\ result.status = "ok"
  /\ Len(result.chunks) >= 2

\* C8: fixed-size chunking rejects chunk_size <= 0, overlap < 0 and
\* overlap >= chunk_size with an invalid-parameter error (ValueError), and
\* returns no ChunkingResult.
C8_FixedRejectsBadParameters ==
  (call.op = "fixed_size"
     /\ (call.chunk_size <= 0 \/ call.overlap < 0
           \/ call.overlap >= call.chunk_size)) =>
    /\ result.status = "raised"
    /\ result.error = "ValueError"
    /\ "chunks" \notin DOMAIN result

C8_Witness ==
  /\ call.op = "fixed_size" /\ Len(dataset) > 0
  /\ call.chunk_size > 0 /\ call.overlap >= call.chunk_size
  /\ result.status = "raised"

SearchCalled ==
  scall.op = "search" /\ scall.embed_ok /\ scall.similarity_metric \in Metrics

\* C9: search(top_k = k) with k >= 1 never returns more than k results, on
\* either backend, for every similarity metric and any number of stored
\* records, the over-fetching paths included.
C9_SearchAtMostTopK ==
  (SearchCalled /\ scall.top_k >= 1 /\ sresult.status = "ok") =>
    /\ Len(sresult.ids) <= scall.top_k
    /\ Len(sresult.distances) <= scall.top_k
    /\ Len(sresult.metadatas) <= scall.top_k
    /\ Len(sresult.documents) <= scall.top_k

C9_Witness ==
  /\ SearchCalled /\ store_type = "faiss"
  /\ scall.similarity_metric # "cosine"
  /\ scall.top_k >= 1
  /\ Len(faiss.index) > scall.top_k
  /\ sresult.status = "ok"
  /\ Len(sresult.ids) = scall.top_k

\* C10: search with top_k = 0 or a negative top_k fails with an
\* invalid-parameter error (ValueError) raised by the retriever itself,
\* before the backend is queried, on either backend and for every metric.
C10_NonPositiveTopKRejected ==
  (SearchCalled /\ scall.top_k <= 0) =>
    /\ sresult.status = "raised"
    /\ sresult.error = "ValueError"
    /\ sresult.raised_by = "retriever"
    /\ ~sresult.backend_queried

\* a score <<numerator, denominator>> within [0, 1]
InUnitInterval(r) == 0 <= r[1] /\ r[1] <= r[2]

\* C11: every similarity score that search returns for
\* similarity_metric = 'cosine' lies in [0, 1], on Backend A and on Backend B.
C11_CosineScoresInUnitInterval ==
  (SearchCalled /\ scall.similarity_metric = "cosine" /\ sresult.status = "ok") =>
    \A i \in DOMAIN sresult.distances : InUnitInterval(sresult.distances[i])

\* a fresh Backend B instance is constructed and loaded in this step
FreshLoadStep ==
  store_type = "faiss" /\ scall.op = "none" /\ scall'.op = "init"

\* the top-1 id Backend B gives for the vector stored at position i
Top1(st, i) == FAISSVectorStore_query(st, st.index[i].x, 1, {})

FaissInStep(st) ==
  /\ \A i \in 0..(Len(st.index) - 1) :
       i \in DOMAIN st.index_to_id /\ st.index_to_id[i] \in DOMAIN st.id_to_index
  /\ \A id \in DOMAIN st.id_to_index :
       /\ st.id_to_index[id] < Len(st.index)
       /\ id \in DOMAIN st.metadata_store
       /\ id \in DOMAIN st.documents

\* C13: when load() finds only one of the two artifacts, the store is not
\* left with index and side tables out of step, and a fresh instance takes
\* nothing from the lone artifact.
C13_LoadsTogetherOrNotAtAll ==
  (scall.op \in {"load", "init"} /\ Cardinality(Artifacts(disk)) = 1) =>
    /\ FaissInStep(faiss)
    /\ scall.op = "init" => faiss = EmptyFaiss

\* add() is called on Backend B in this step with a batch holding an
\* embedding whose length is not the store's dimension
MismatchedAddStep ==
  /\ store_type = "faiss" /\ scall.op = "none" /\ scall'.op = "add"
  /\ \E i \in DOMAIN scall'.records :
       Len(scall'.records[i].embedding) # Dimension

\* C14: add() on Backend B with a batch that contains an embedding of the
\* wrong length raises and leaves the index, id_to_index, index_to_id,
\* metadata_store and documents exactly as they were before the call.
C14_DimensionMismatchAborts ==
  [][ MismatchedAddStep => (sresult'.status = "raised" /\ faiss' = faiss) ]_vars

\* add() is called on Backend A in this step with a batch of distinct ids of
\* which one at least is already stored
ReAddStep ==
  /\ store_type = "chroma" /\ scall.op = "none" /\ scall'.op = "add"
  /\ ~HasDuplicateIds(scall'.records)
  /\ \E i \in DOMAIN scall'.records : scall'.records[i].id \in DOMAIN collection

\* what the collection holds for a record once it is written
StoredEntry(r) ==
  [ embedding |-> r.embedding,
    metadata |-> sanitize_metadata(r.metadata, r.id),
    document |-> r.document ]

\* C15: add() on Backend A with a record whose id is already stored does not
\* raise; afterwards the collection holds for that id one record carrying
\* the newly supplied embedding, metadata and document, and every record
\* outside the batch is unchanged.
C15_ReAddUpserts ==
  [][ ReAddStep =>
        LET batch == {scall'.records[i].id : i \in DOMAIN scall'.records}
        IN /\ sresult'.status = "ok"
           /\ DOMAIN collection' = DOMAIN collection \cup batch
           /\ \A i \in DOMAIN scall'.records :
                collection'[scall'.records[i].id] = StoredEntry(scall'.records[i])
           /\ \A id \in DOMAIN collection \ batch :
                collection'[id] = collection[id] ]_vars

C17_EmptyIndexQueryIsEmpty ==
  (store_type = "faiss" /\ scall.op = "query" /\ Len(faiss.index) = 0) =>
    sresult = EmptyResults

C17_Witness ==
  /\ store_type = "faiss" /\ scall.op = "query" /\ Len(faiss.index) = 0
  /\ scall.n_results <= 0
  /\ scall.where # {}

\* every value of the mapping is a scalar (a None value counts as no value)
ScalarOnly(md) ==
  \A k \in DOMAIN md : md[k].type \in ScalarTypes \cup {"NoneType"}

\* C18: every metadata mapping a backend holds after add() has scalar values
\* only, on Backend A and on Backend B, and query() returns no non-scalar
\* metadata value.
C18_StoredMetadataScalarOnly ==
  /\ \A id \in DOMAIN collection : ScalarOnly(collection[id].metadata)
  /\ \A id \in DOMAIN faiss.metadata_store : ScalarOnly(faiss.metadata_store[id])
  /\ (scall.op = "query" /\ sresult.status = "ok") =>
       \A i \in DOMAIN sresult.metadatas : ScalarOnly(sresult.metadatas[i])

\* the assessor has reported on a non-empty chunk list
AssessedNonEmpty == result.status = "ok" /\ Len(result.chunks) > 0

\* 10 * score >= tenths, for a score <<numerator, denominator>>
AtLeastTenths(score, tenths) == 10 * score[1] >= tenths * score[2]

\* C19: for every non-empty chunk list and source dataset quality_score lies
\* in [0.0, 1.0] and overall_quality is EXCELLENT iff score >= 0.8, GOOD iff
\* 0.6 <= score < 0.8, FAIR iff 0.4 <= score < 0.6, POOR iff score < 0.4.
C19_ScoreBoundedAndBanded ==
  AssessedNonEmpty =>
    LET score == result.quality_report.quality_score
        label == result.quality_report.overall_quality
    IN /\ InUnitInterval(score)
       /\ label = "EXCELLENT" <=> AtLeastTenths(score, 8)
       /\ label = "GOOD" <=> (AtLeastTenths(score, 6) /\ ~AtLeastTenths(score, 8))
       /\ label = "FAIR" <=> (AtLeastTenths(score, 4) /\ ~AtLeastTenths(score, 6))
       /\ label = "POOR" <=> ~AtLeastTenths(score, 4)

C19_Witness ==
  /\ call.op = "assess" /\ AssessedNonEmpty
  /\ Len(dataset) > 0
  /\ result.quality_report.overall_quality = "FAIR"
  /\ result.quality_report.quality_issues.empty_chunks > 0

\* C20: on an empty chunk list the assessor does not raise and reports
\* overall_quality POOR, total_chunks 0 and either quality_score 0 or an
\* error entry, whatever the source dataset.
C20_EmptyChunkListIsPoor ==
  (result.status = "ok" /\ Len(result.chunks) = 0) =>
    LET report == result.quality_report
    IN /\ report.overall_quality = "POOR"
       /\ report.total_chunks = 0
       /\ \/ "error" \in DOMAIN report
          \/ ("quality_score" \in DOMAIN report /\ report.quality_score[1] = 0)

C20_Witness ==
  /\ call.op = "assess" /\ result.status = "ok"
  /\ Len(call.chunks) = 0 /\ Len(dataset) > 0
  /\ "error" \in DOMAIN result.quality_report

\* C21: every ChunkingResult, whichever strategy and path produced it
\* (fixed-size, recursive with or without the text splitter, document-based,
\* semantic by clustering or by position), has as many metadata entries as
\* chunks, total_chunks equal to that number, and metadata[i].chunk_size
\* equal to the number of rows of chunks[i].
C21_ChunksAndMetadataAligned ==
  result.status = "ok" /\ call.op # "assess" =>
    /\ Len(result.chunks) = Len(result.metadata)
    /\ result.total_chunks = Len(result.chunks)
    /\ \A i \in DOMAIN result.chunks :
         result.metadata[i].chunk_size = Len(result.chunks[i])

\* a clustering result whose first chunk skips a row: its index span is
\* wider than its row count
C21_Witness ==
  /\ call.op = "semantic"
  /\ result.status = "ok"
  /\ result.total_chunks = 2
  /\ result.metadata[1].additional_metadata.chunking_method
       = "semantic_clustering"
  /\ result.metadata[1].end_idx - result.metadata[1].start_idx + 1
       > Len(result.chunks[1])

\* the results of the strategies whose chunks are addressed by row position
RowAddressed ==
  /\ result.status = "ok"
  /\ \/ call.op \in {"fixed_size", "document_based"}
     \/ /\ call.op = "semantic"
        /\ \A i \in DOMAIN result.metadata :
             result.metadata[i].additional_metadata.chunking_method
               = "semantic_fallback"

\* C22: for fixed-size, document-based and semantic-fallback results every
\* chunk's metadata has 0 <= start_idx <= end_idx < len(dataset), and start_idx
\* and end_idx are the source positions of the chunk's first and last row.
C22_IndicesAddressChunkRows ==
  RowAddressed =>
    \A i \in DOMAIN result.chunks :
      LET md == result.metadata[i]
          chunk == result.chunks[i]
      IN /\ 0 <= md.start_idx
         /\ md.start_idx <= md.end_idx
         /\ md.end_idx < Len(dataset)
         /\ chunk # <<>>
         /\ md.start_idx = chunk[1]
         /\ md.end_idx = chunk[Len(chunk)]

\* C23: no chunking strategy modifies the dataset it is given: after chunk()
\* has returned or raised, the caller's frame holds the same rows, columns
\* and values in the same order, also for the strategies that give their
\* chunks a synthesized text column.
C23_ChunkingLeavesDatasetAlone == [][dataset' = dataset]_vars

\* a semantic call has returned chunks that carry a non-empty text column
C23_Witness ==
  /\ call.op = "semantic"
  /\ result.status = "ok"
  /\ result.total_chunks >= 2
  /\ \A i \in DOMAIN result.metadata :
       result.metadata[i].additional_metadata.text_length > 0

\* what thread t's query returns when run alone against the store
SequentialAnswer(t) ==
  FAISSVectorStore_query(faiss, scall.threads[t].query_vec,
                         scall.threads[t].n_results, scall.threads[t].where)

\* C24: a query changes nothing in Backend B (index, id_to_index,
\* index_to_id, metadata_store and documents are the same before and after
\* every step of it), so two queries interleaved with no write in progress
\* each return what they return when run alone.
C24_QueriesLeaveStoreAndAgree ==
  [][ scall.op = "queries" /\ scall'.op = "queries" =>
        /\ faiss' = faiss
        /\ \A t \in 1..2 :
             scall'.threads[t].pc = "done" =>
               scall'.threads[t].results = SequentialAnswer(t) ]_vars

\* both callers have finished, having interleaved: each found results
C24_Witness ==
  /\ scall.op = "queries"
  /\ sresult.status = "ok"
  /\ \A t \in 1..2 : Len(scall.threads[t].results.ids) >= 1
  /\ scall.threads[1].results # scall.threads[2].results

\* search_hybrid has returned results
HybridReturned == scall.op = "search_hybrid" /\ sresult.status = "ok"

\* the cosine search the hybrid scores of this call are built on
HybridSemantic ==
  UnifiedRetriever_search(store_type, collection, faiss, TRUE, scall.query_vec,
                          Len(sresult.ids), "cosine", {})

\* C25: search_hybrid(top_k = k) returns at most k results, ordered by
\* descending hybrid score, and each score is semantic_weight *
\* semantic_score + keyword_weight * (fraction of the query's terms that
\* occur in the result's document).
C25_HybridTopKSortedBlended ==
  HybridReturned =>
    /\ Len(sresult.ids) <= scall.top_k
    /\ \A j \in 1..(Len(sresult.distances) - 1) :
         ~RatLT(sresult.distances[j], sresult.distances[j + 1])
    /\ \A j \in DOMAIN sresult.ids :
         RatEQ(sresult.distances[j],
               HybridScore(scall.weights, HybridSemantic.distances[j],
                           scall.query_terms, sresult.documents[j]))

\* search_with_reranking was called with its default initial_k and the same
\* metric for both stages, and returned
PassThroughReturned ==
  /\ scall.op = "search_with_reranking"
  /\ scall.rerank_metric = scall.similarity_metric
  /\ scall.initial_k = 0
  /\ scall.top_k >= 1
  /\ sresult.status = "ok"

\* the initial retrieval of that call
InitialRetrieval ==
  UnifiedRetriever_search(store_type, collection, faiss, TRUE, scall.query_vec,
    InitialK(scall.top_k, scall.initial_k), scall.similarity_metric, {})

\* C26: with rerank_metric equal to similarity_metric, search_with_reranking
\* is a pass-through: for every top_k in 1..100 the initial retrieval asks for
\* initial_k >= top_k candidates (min(3 * top_k, 50) by default) and the call
\* returns the first top_k entries of it, ids, scores, metadata and documents
\* unchanged and in order.
C26_RerankPassThrough ==
  PassThroughReturned =>
    /\ InitialK(scall.top_k, scall.initial_k) >= scall.top_k
    /\ sresult.ids = Trim(InitialRetrieval.ids, scall.top_k)
    /\ sresult.distances = Trim(InitialRetrieval.distances, scall.top_k)
    /\ sresult.metadatas = Trim(InitialRetrieval.metadatas, scall.top_k)
    /\ sresult.documents = Trim(InitialRetrieval.documents, scall.top_k)

\* no id occurs twice in a list
NoRepeat(ids) ==
  \A i \in DOMAIN ids : \A j \in DOMAIN ids : ids[i] = ids[j] => i = j

\* C27: after any sequence of add and reset calls on one Backend B instance,
\* an add of an already-stored id included, id_to_index and index_to_id are
\* mutual inverses, their size is the number of vectors in the index,
\* metadata_store and documents have exactly those ids as keys, and no query
\* result lists an id twice.
C27_FaissMapsInverse ==
  store_type = "faiss" =>
    /\ \A id \in DOMAIN faiss.id_to_index :
         /\ faiss.id_to_index[id] \in DOMAIN faiss.index_to_id
         /\ faiss.index_to_id[faiss.id_to_index[id]] = id
    /\ \A idx \in DOMAIN faiss.index_to_id :
         /\ faiss.index_to_id[idx] \in DOMAIN faiss.id_to_index
         /\ faiss.id_to_index[faiss.index_to_id[idx]] = idx
    /\ Cardinality(DOMAIN faiss.id_to_index) = Len(faiss.index)
    /\ Cardinality(DOMAIN faiss.index_to_id) = Len(faiss.index)
    /\ DOMAIN faiss.metadata_store = DOMAIN faiss.id_to_index
    /\ DOMAIN faiss.documents = DOMAIN faiss.id_to_index
    /\ scall.op = "query" /\ sresult.status = "ok" => NoRepeat(sresult.ids)

\* C28: on either backend and for each similarity metric, the results
\* search returns are ranked best-first by the score it reports: the scores
\* do not increase along the list (a higher score meaning more similar),
\* dot-product requests with their passed-through distances included.
C28_ScoresNonIncreasing ==
  scall.op = "search" /\ sresult.status = "ok" =>
    \A j \in 1..(Len(sresult.distances) - 1) :
      ~RatLT(sresult.distances[j], sresult.distances[j + 1])

\* a fixed-size, recursive-fallback, document-based or semantic-fallback call
\* with valid parameters has returned
PositionalReturned ==
  /\ result.status = "ok"
  /\ Len(dataset) > 0
  /\ \/ call.op = "fixed_size"
     \/ call.op = "recursive" /\ ~call.langchain_available
          /\ call.chunk_size > 0 /\ call.overlap >= 0
     \/ call.op = "document_based" /\ call.token_limit > 0
     \/ /\ call.op = "semantic"
        /\ call.n_clusters > 0
        /\ \A i \in DOMAIN result.metadata :
             result.metadata[i].additional_metadata.chunking_method
               = "semantic_fallback"

\* C29: for a non-empty dataset and valid parameters no chunk of the
\* fixed-size, recursive-fallback, document-based (whole groups and
\* sub-chunks) or semantic-fallback strategy is empty: every chunk_size is at
\* least 1 and the quality report counts no empty chunk.
C29_NoEmptyChunk ==
  PositionalReturned =>
    /\ \A i \in DOMAIN result.metadata : result.metadata[i].chunk_size >= 1
    /\ result.total_chunks > 0 =>
         result.quality_report.quality_issues.empty_chunks = 0

\* RecursiveChunker._chunk_fallback has returned, for an overlap of 0 or more
RecFallbackReturned ==
  /\ call.op = "recursive"
  /\ ~call.langchain_available
  /\ call.overlap >= 0
  /\ result.status = "ok"

\* the rows chunk i hands over to chunk i + 1
CarriedRows(i) == Min(call.overlap \div 100, Len(result.chunks[i]))

\* C30: in the recursive fallback every source row is in at least one chunk
\* and rows keep their source order inside a chunk; a chunk is closed only
\* when the next row would push the buffered character count over chunk_size;
\* each following chunk starts with exactly min(overlap // 100, rows of the
\* previous chunk) trailing rows of the previous chunk, so that with
\* overlap < 100 the chunks partition the dataset.
C30_RecursiveFallbackChunks ==
  RecFallbackReturned =>
    LET chunks == result.chunks
        n == Len(chunks)
    IN /\ \A r \in SeqRange(AllRows) : \E i \in 1..n : r \in SeqRange(chunks[i])
       /\ \A i \in 1..n : \A a \in DOMAIN chunks[i] : \A b \in DOMAIN chunks[i] :
            a < b => chunks[i][a] < chunks[i][b]
       /\ \A i \in 1..(n - 1) :
            LET k == CarriedRows(i)
                next_row == chunks[i + 1][k + 1]
            IN /\ Len(chunks[i + 1]) > k
               /\ SubSeq(chunks[i + 1], 1, k) = LastK(chunks[i], k)
               /\ next_row = chunks[i][Len(chunks[i])] + 1
               /\ result.metadata[i].additional_metadata.text_length
                    + RecRowTextLen(dataset[next_row + 1]) > call.chunk_size
       /\ call.overlap < 100 =>
            \A r \in SeqRange(AllRows) :
              Cardinality({i \in 1..n : r \in SeqRange(chunks[i])}) = 1

\* a two-row chunk was closed and both its rows were carried into the next
C30_Witness ==
  /\ RecFallbackReturned
  /\ call.overlap = 200
  /\ result.total_chunks >= 2
  /\ Len(result.chunks[1]) = 2
  /\ Len(result.chunks[2]) = 3

====
